---- MODULE Spec2Model ----
(***************************************************************************)
(* A model of src/utils.py of brunnedu/DeepLearning2022: the helpers a     *)
(* training loop calls to set up logging, to append per-epoch metrics to   *)
(* CSV files and to save and reload checkpoints.                           *)
(*                                                                         *)
(* The state is the filesystem below the working directory (directories    *)
(* and files, a file being text or a pickled object), the process state    *)
(* the helpers touch (the root logger's handlers, the seeds of the random  *)
(* number generators), the wall clock, and a record of the last call, its  *)
(* result and the state of the model and optimizer objects passed to it.   *)
(* Texts are strings: what csv.writer writes is built character by         *)
(* character and read back by a model of csv.reader.                       *)
(***************************************************************************)
EXTENDS Integers, Sequences, FiniteSets, TLC

VARIABLES
    dirs,        \* the directories that exist (paths)
    files,       \* path -> [text |-> string] or [pickle |-> object]
    handlers,    \* logging.getLogger().handlers of the running process
    level,       \* logging.getLogger().level of the running process
    rng,         \* the seeds last given to the random number generators
    now,         \* the wall clock, in minutes
    call,        \* the last call of a function of utils.py
    ret,         \* how it ended: what it returned or what it raised
    model,       \* state_dict of the model object passed to it, afterwards
    optimizer,   \* state_dict of the optimizer object passed to it, afterwards
    torchLoads,  \* number of torch.load invocations the last call made
    initial,     \* history: the files that existed before the first call
    saved,       \* history: path -> the arguments of the save_checkpoint or
                 \* save_model call that wrote the file last
    latest,      \* history: experiment id -> the arguments of the latest
                 \* save_checkpoint call for it that returned
    rows         \* history: path -> the <<epoch, metric_val>> of every
                 \* save_plotting_data call on it that returned, in call order

vars == <<dirs, files, handlers, level, rng, now, call, ret, model, optimizer,
          torchLoads, initial, saved, latest, rows>>

---------------------------------------------------------------------------
(* Bounds of the model and the inputs the calls are drawn from.            *)

\* save_plotting_data is called at most this many times
MaxRows == 2
\* the clock stops after this many minutes
MaxTime == 1
\* at most this many pickled files (checkpoints, models) are kept on disk
MaxPickles == 2

Experiments == {"a", "b"}
\* a plain metric name, and one that csv.writer has to quote
Metrics == {"acc", "p,r"}
\* one-digit and two-digit epochs
Epochs == {0, 10}
\* metric values are floats with one fractional digit, given in tenths:
\* 5 is 0.5 and 12 is 1.2
MetricVals == {5, 12}
Seeds == {0, 42}
CheckpointFile == "checkpoint.pth.tar"
BestModelFile == "best_model.pth.tar"
FileNames == {CheckpointFile, BestModelFile, "epoch.pth.tar"}
\* state_dict of a trained model and of its optimizer
ModelStates == {[weight |-> 1], [weight |-> 2]}
OptimizerStates == {[state |-> 1], [state |-> 2]}
\* state_dict of the model and the optimizer a run constructs before it loads
FreshModels == {[weight |-> 0]}
FreshOptimizers == {[state |-> 0]}
\* what a training loop passes to save_checkpoint after its first and
\* after its second epoch
Snapshots ==
    { [next_epoch |-> 1, best_acc |-> 5, model |-> [weight |-> 1],
       optimizer |-> [state |-> 1]],
      [next_epoch |-> 2, best_acc |-> 9, model |-> [weight |-> 2],
       optimizer |-> [state |-> 2]] }

None == [none |-> TRUE]

---------------------------------------------------------------------------
(* Strings, numbers and paths.                                             *)

Char(s, i) == SubSeq(s, i, i)

Contains(s, chars) == \E i \in 1..Len(s) : Char(s, i) \in chars

Digit(d) == Char("0123456789", d + 1)

IsDigit(c) == c \in {Digit(d) : d \in 0..9}

DigitVal(c) == CHOOSE d \in 0..9 : Digit(d) = c

\* str(n) of a Python int
RECURSIVE IntStr(_)
IntStr(n) ==
    IF n < 0 THEN "-" \o IntStr(-n)
    ELSE IF n < 10 THEN Digit(n)
    ELSE IntStr(n \div 10) \o Digit(n % 10)

\* repr(x) of a Python float with one fractional digit, x given in tenths,
\* which is what csv.writer writes for it
FloatStr(x) == IntStr(x \div 10) \o "." \o Digit(x % 10)

IsNat(s) == Len(s) > 0 /\ \A i \in 1..Len(s) : IsDigit(Char(s, i))

\* int(s) of a string of digits
RECURSIVE ParseNat(_)
ParseNat(s) ==
    IF Len(s) = 1 THEN DigitVal(s)
    ELSE 10 * ParseNat(SubSeq(s, 1, Len(s) - 1)) + DigitVal(Char(s, Len(s)))

IsFloat(s) ==
    /\ Len(s) >= 3
    /\ Char(s, Len(s) - 1) = "."
    /\ IsDigit(Char(s, Len(s)))
    /\ IsNat(SubSeq(s, 1, Len(s) - 2))

\* float(s), in tenths
ParseFloat(s) ==
    10 * ParseNat(SubSeq(s, 1, Len(s) - 2)) + DigitVal(Char(s, Len(s)))

\* os.path.join of a path and a plain name
Join(a, b) == a \o "/" \o b

ExperimentDir(e) == Join("out", e)

LogDir(e) == Join(ExperimentDir(e), "logs")

\* time.strftime('%Y-%m-%d-%H-%M') at minute t of the first hour of 2022
TimeStr(t) == "2022-01-01-00-" \o Digit(t \div 10) \o Digit(t % 10)

LogFile(e, t) == Join(LogDir(e), TimeStr(t) \o ".log")

CsvFile(e, m) == Join(ExperimentDir(e), m \o ".csv")

---------------------------------------------------------------------------
(* The csv module: writer.writerow and reader, with the default dialect.   *)

\* a field is quoted when it holds the delimiter, the quote character or a
\* character of the line terminator; a quote inside it is doubled
RECURSIVE DoubleQuotes(_)
DoubleQuotes(s) ==
    IF s = "" THEN ""
    ELSE (IF Char(s, 1) = "\"" THEN "\"\"" ELSE Char(s, 1))
         \o DoubleQuotes(SubSeq(s, 2, Len(s)))

CsvField(s) ==
    IF Contains(s, {",", "\"", "\r", "\n"})
    THEN "\"" \o DoubleQuotes(s) \o "\""
    ELSE s

RECURSIVE JoinFields(_)
JoinFields(fields) ==
    IF Len(fields) = 1 THEN CsvField(fields[1])
    ELSE CsvField(fields[1]) \o "," \o JoinFields(Tail(fields))

\* the text writer.writerow(fields) writes
WriteRow(fields) == JoinFields(fields) \o "\r\n"

\* csv.reader over the text s from position i: field and row are the field
\* and the row being read, quoted says whether i is inside a quoted field
RECURSIVE ReadFrom(_, _, _, _, _, _)
ReadFrom(s, i, field, row, quoted, out) ==
    IF i > Len(s)
    THEN IF field = "" /\ row = <<>> THEN out
         ELSE Append(out, Append(row, field))
    ELSE LET c == Char(s, i) IN
         IF quoted
         THEN IF c = "\""
              THEN IF i < Len(s) /\ Char(s, i + 1) = "\""
                   THEN ReadFrom(s, i + 2, field \o "\"", row, TRUE, out)
                   ELSE ReadFrom(s, i + 1, field, row, FALSE, out)
              ELSE ReadFrom(s, i + 1, field \o c, row, TRUE, out)
         ELSE IF c = ","
              THEN ReadFrom(s, i + 1, "", Append(row, field), FALSE, out)
         ELSE IF c = "\r" \/ c = "\n"
              THEN LET j == IF c = "\r" /\ i < Len(s) /\ Char(s, i + 1) = "\n"
                            THEN i + 2 ELSE i + 1
                   IN  ReadFrom(s, j, "", <<>>, FALSE,
                                Append(out, Append(row, field)))
         ELSE IF c = "\"" /\ field = ""
              THEN ReadFrom(s, i + 1, "", row, TRUE, out)
         ELSE ReadFrom(s, i + 1, field \o c, row, FALSE, out)

\* list(csv.reader(file)): the rows of a text, each a sequence of strings
ReadCsv(s) == ReadFrom(s, 1, "", <<>>, FALSE, <<>>)

---------------------------------------------------------------------------
(* The filesystem.                                                         *)

NoFiles == [p \in {} |-> [text |-> ""]]

Put(fs, p, content) ==
    [q \in DOMAIN fs \cup {p} |-> IF q = p THEN content ELSE fs[q]]

IsFile(fs, p) == p \in DOMAIN fs

\* open(p, 'w'): the file is created or truncated
OpenWrite(fs, p) == Put(fs, p, [text |-> ""])

\* open(p, 'a'): the file is created when it does not exist
OpenAppend(fs, p) == IF IsFile(fs, p) THEN fs ELSE Put(fs, p, [text |-> ""])

\* file.write(s) at the end of an open text file
Write(fs, p, s) == Put(fs, p, [text |-> fs[p].text \o s])

\* os.makedirs(LogDir(e)): the directory and the ones above it
MakeDirs(ds, e) == ds \cup {"out", ExperimentDir(e), LogDir(e)}

\* mutant: files are created whether or not their directory exists
DirAssumed(ds, e) == TRUE

\* open(path, 'w') and torch.save(obj, path) create a file only in a
\* directory that exists; path is a plain name in out/<e>
DirExists(ds, e) == ExperimentDir(e) \in ds

Pickles(fs) == {p \in DOMAIN fs : "pickle" \in DOMAIN fs[p]}

\* the filesystems a first call may find: nothing, or what earlier runs
\* left: of experiment "a" a log and a metrics file with one row, of
\* experiment "b" a log and the empty metrics file of a run that was killed
\* between opening the file and writing its header
InitialFileSystems ==
    { [dirs |-> {}, files |-> NoFiles],
      [dirs |-> {"out", "out/a", "out/a/logs", "out/b", "out/b/logs"},
       files |->
           Put(Put(Put(Put(NoFiles,
               "out/a/logs/2021-12-31-23-58.log", [text |-> ""]),
               "out/a/acc.csv", [text |-> "epoch,acc\r\n0,0.5\r\n"]),
               "out/b/logs/2021-12-31-23-59.log", [text |-> ""]),
               "out/b/acc.csv", [text |-> ""])] }

NoRows == [p \in {} |-> <<>>]

NoSaves == [p \in {} |-> [op |-> ""]]

---------------------------------------------------------------------------
(* Calls and results.                                                      *)

\* the last call: its function, its experiment id, the path it addresses
\* and the model and optimizer states it was given (None: no such argument)
Call(op, e, path, ms, os) ==
    [op |-> op, experiment_id |-> e, path |-> path, model |-> ms,
     optimizer |-> os]

Return(v) == [status |-> "return", value |-> v]

Raise(error) == [status |-> "raise", value |-> error]

---------------------------------------------------------------------------
(* fix_all_seeds                                                           *)

Unseeded == [random |-> -1, numpy |-> -1, hashseed |-> "", torch |-> -1,
             cuda |-> -1]

\* cuda_available: what torch.cuda.is_available() answers
FixAllSeeds(seed, cuda_available) ==
    /\ rng' = [random |-> seed, numpy |-> seed, hashseed |-> IntStr(seed),
               torch |-> seed,
               cuda |-> IF cuda_available THEN seed ELSE rng.cuda]
    /\ call' = Call("fix_all_seeds", "", "", None, None)
    /\ ret' = Return(None)
    /\ model' = None /\ optimizer' = None /\ torchLoads' = 0
    /\ UNCHANGED <<dirs, files, handlers, level, now, initial, saved, latest, rows>>

---------------------------------------------------------------------------
(* create_logger                                                           *)

FileHandler(fn) == [class |-> "FileHandler", target |-> fn]

StreamHandler == [class |-> "StreamHandler", target |-> "stderr"]

\* logging.basicConfig configures the root logger only when it has no
\* handlers yet
BasicConfigApplies(hs) == Len(hs) = 0

\* logging.basicConfig(filename=fn): a FileHandler on fn, which opens fn for
\* appending, becomes the root logger's only handler
BasicConfig(hs, fs, fn) ==
    IF BasicConfigApplies(hs)
    THEN [handlers |-> <<FileHandler(fn)>>, files |-> OpenAppend(fs, fn)]
    ELSE [handlers |-> hs, files |-> fs]

\* mutant: a console handler is added whenever there is a handler
NeedsStreamHandlerAlways(hs) == Len(hs) >= 1

\* line 50: the file handler is the only handler
NeedsStreamHandler(hs) == Len(hs) = 1

\* the root logger's handlers and the files after create_logger(e) at
\* minute t, from handlers hs and files fs
LoggerSetup(hs, fs, e, t) ==
    LET configured == BasicConfig(hs, fs, LogFile(e, t))
    IN  [handlers |-> IF NeedsStreamHandler(configured.handlers)
                      THEN Append(configured.handlers, StreamHandler)
                      ELSE configured.handlers,
         files |-> configured.files]

CreateLogger(e) ==
    LET setup == LoggerSetup(handlers, files, e, now)
    IN  /\ dirs' = IF LogDir(e) \notin dirs THEN MakeDirs(dirs, e) ELSE dirs
        /\ files' = setup.files
        /\ handlers' = setup.handlers
        /\ level' = "INFO"
        /\ call' = Call("create_logger", e, LogFile(e, now), None, None)
        /\ ret' = Return("root logger")
        /\ model' = None /\ optimizer' = None /\ torchLoads' = 0
        /\ UNCHANGED <<rng, now, initial, saved, latest, rows>>

---------------------------------------------------------------------------
(* save_plotting_data                                                      *)

\* the number of rows the calls recorded in rs wrote
TotalRows(rs) ==
    Cardinality({pi \in (DOMAIN rs) \X (1..MaxRows) : pi[2] <= Len(rs[pi[1]])})

\* mutant: the header is written by every call
AlwaysNeedsHeader(fs, fn) == TRUE

\* mutant: the header is also written into a file that exists and is empty
NeedsHeaderIfEmpty(fs, fn) == ~IsFile(fs, fn) \/ fs[fn].text = ""

\* line 64: the header is written when the file does not exist yet
NeedsHeader(fs, fn) == ~IsFile(fs, fn)

\* lines 64-67
WithHeader(fs, fn, metric) ==
    IF NeedsHeader(fs, fn)
    THEN Write(OpenWrite(fs, fn), fn, WriteRow(<<"epoch", metric>>))
    ELSE fs

\* mutant: the data row is written value first
WithDataRowSwapped(fs, fn, epoch, metric_val) ==
    Write(OpenAppend(fs, fn), fn,
          WriteRow(<<FloatStr(metric_val), IntStr(epoch)>>))

\* lines 70-72
WithDataRow(fs, fn, epoch, metric_val) ==
    Write(OpenAppend(fs, fn), fn,
          WriteRow(<<IntStr(epoch), FloatStr(metric_val)>>))

SavePlottingData(e, metric, epoch, metric_val) ==
    LET fn == CsvFile(e, metric)
    IN  /\ TotalRows(rows) < MaxRows
        /\ call' = Call("save_plotting_data", e, fn, None, None)
        /\ model' = None /\ optimizer' = None /\ torchLoads' = 0
        /\ IF ~DirExists(dirs, e)
           THEN \* open(fn, 'w') finds no directory to create the file in
                /\ ret' = Raise("FileNotFoundError")
                /\ UNCHANGED <<files, rows>>
           ELSE /\ files' = WithDataRow(WithHeader(files, fn, metric), fn,
                                        epoch, metric_val)
                /\ rows' = [p \in DOMAIN rows \cup {fn} |->
                              IF p = fn
                              THEN Append(IF fn \in DOMAIN rows THEN rows[fn]
                                          ELSE <<>>, <<epoch, metric_val>>)
                              ELSE rows[p]]
                /\ ret' = Return(None)
        /\ UNCHANGED <<dirs, handlers, level, rng, now, initial, saved, latest>>

---------------------------------------------------------------------------
(* torch.save, torch.load and load_state_dict                              *)


\* what torch.save raises when the directory of its path does not exist
\* (a RuntimeError where torch checks the directory itself)
NoDirectoryError == "FileNotFoundError"

\* the files after torch.save(obj, path)
TorchSave(fs, path, obj) == Put(fs, path, [pickle |-> obj])

\* torch.load(path): the object pickled in the file, or the error raised
TorchLoad(fs, path) ==
    IF ~IsFile(fs, path) THEN Raise("FileNotFoundError")
    ELSE IF "pickle" \notin DOMAIN fs[path] THEN Raise("UnpicklingError")
    ELSE Return(fs[path].pickle)

\* module.load_state_dict(sd) and optimizer.load_state_dict(sd) take a
\* state_dict with the keys of the object's own
CanLoadStateDict(current, sd) == DOMAIN sd = DOMAIN current

HasKey(d, key) == key \in DOMAIN d

---------------------------------------------------------------------------
(* save_checkpoint and save_model                                          *)

\* lines 88-93
CheckpointDict(next_epoch, best_acc, ms, os) ==
    [next_epoch |-> next_epoch, best_acc |-> best_acc,
     model_state_dict |-> ms, optimizer_state_dict |-> os]

\* mutant: the filename given is not used
SavePathIgnoringFilename(e, filename) == Join(ExperimentDir(e), CheckpointFile)

\* lines 95-96 and 133-134
SavePath(e, filename) == Join(ExperimentDir(e), filename)

KeepsQuota(fs, path) ==
    IsFile(fs, path) \/ Cardinality(Pickles(fs)) < MaxPickles

SaveCheckpoint(e, next_epoch, best_acc, ms, os, filename) ==
    LET path == SavePath(e, filename)
    IN  /\ call' = Call("save_checkpoint", e, path, ms, os)
        /\ KeepsQuota(files, path)
        /\ model' = ms /\ optimizer' = os /\ torchLoads' = 0
        /\ IF DirExists(dirs, e)
           THEN /\ files' = TorchSave(files, path,
                        CheckpointDict(next_epoch, best_acc, ms, os))
                /\ saved' = Put(saved, path,
                        [op |-> "save_checkpoint", next_epoch |-> next_epoch,
                         best_acc |-> best_acc, model |-> ms,
                         optimizer |-> os])
                /\ latest' = Put(latest, e,
                        [op |-> "save_checkpoint", next_epoch |-> next_epoch,
                         best_acc |-> best_acc, model |-> ms,
                         optimizer |-> os])
                /\ ret' = Return(None)
           ELSE /\ ret' = Raise(NoDirectoryError)
                /\ UNCHANGED <<files, saved, latest>>
        /\ UNCHANGED <<dirs, handlers, level, rng, now, initial, rows>>

SaveModel(ms, e, filename) ==
    LET path == SavePath(e, filename)
    IN  /\ call' = Call("save_model", e, path, ms, None)
        /\ KeepsQuota(files, path)
        /\ model' = ms /\ optimizer' = None /\ torchLoads' = 0
        /\ IF DirExists(dirs, e)
           THEN /\ files' = TorchSave(files, path, ms)
                /\ saved' = Put(saved, path,
                                [op |-> "save_model", model |-> ms])
                /\ ret' = Return(None)
           ELSE /\ ret' = Raise(NoDirectoryError)
                /\ UNCHANGED <<files, saved>>
        /\ UNCHANGED <<dirs, handlers, level, rng, now, initial, latest, rows>>

---------------------------------------------------------------------------
(* load_checkpoint and load_best_model                                     *)

\* mutant: the checkpoint is looked for in out, not in out/<e>
CheckpointPathWithoutExperiment(e) == Join("out", CheckpointFile)

\* line 104
CheckpointPath(e) == Join(ExperimentDir(e), CheckpointFile)

\* line 122
BestModelPath(e) == Join(ExperimentDir(e), BestModelFile)

\* lines 105-114 on the files fs, given a model in state ms and an optimizer
\* in state os: the result and the two states afterwards
LoadCheckpointOutcome(fs, e, ms, os) ==
    LET loaded == TorchLoad(fs, CheckpointPath(e))
        checkpoint == loaded.value
        failed(error, ms1, os1) ==
            [ret |-> Raise(error), model |-> ms1, optimizer |-> os1]
    IN  IF loaded.status = "raise" THEN failed(loaded.value, ms, os)
        ELSE IF ~HasKey(checkpoint, "model_state_dict")
        THEN failed("KeyError", ms, os)
        ELSE IF ~CanLoadStateDict(ms, checkpoint.model_state_dict)
        THEN failed("RuntimeError", ms, os)
        ELSE IF ~HasKey(checkpoint, "optimizer_state_dict")
        THEN failed("KeyError", checkpoint.model_state_dict, os)
        ELSE IF ~CanLoadStateDict(os, checkpoint.optimizer_state_dict)
        THEN failed("ValueError", checkpoint.model_state_dict, os)
        ELSE IF ~HasKey(checkpoint, "next_epoch")
                \/ ~HasKey(checkpoint, "best_acc")
        THEN failed("KeyError", checkpoint.model_state_dict,
                    checkpoint.optimizer_state_dict)
        ELSE [ret |-> Return([model |-> checkpoint.model_state_dict,
                              optimizer |-> checkpoint.optimizer_state_dict,
                              next_epoch |-> checkpoint.next_epoch,
                              best_acc |-> checkpoint.best_acc]),
              model |-> checkpoint.model_state_dict,
              optimizer |-> checkpoint.optimizer_state_dict]

\* mutant: a missing or unusable checkpoint is answered by a fresh start
LoadCheckpointOrStartFresh(e, ms, os) ==
    LET outcome == LoadCheckpointOutcome(files, e, ms, os)
    IN  /\ call' = Call("load_checkpoint", e, CheckpointPath(e), ms, os)
        /\ ret' = IF outcome.ret.status = "raise"
                  THEN Return([model |-> ms, optimizer |-> os,
                               next_epoch |-> 0, best_acc |-> 0])
                  ELSE outcome.ret
        /\ model' = outcome.model
        /\ optimizer' = outcome.optimizer
        /\ torchLoads' = 1
        /\ UNCHANGED <<dirs, files, handlers, level, rng, now, initial, saved, latest,
                       rows>>

LoadCheckpoint(e, ms, os) ==
    LET outcome == LoadCheckpointOutcome(files, e, ms, os)
    IN  /\ call' = Call("load_checkpoint", e, CheckpointPath(e), ms, os)
        /\ ret' = outcome.ret
        /\ model' = outcome.model
        /\ optimizer' = outcome.optimizer
        /\ torchLoads' = 1
        /\ UNCHANGED <<dirs, files, handlers, level, rng, now, initial, saved, latest,
                       rows>>

\* lines 123-126
LoadBestModelOutcome(fs, e, ms) ==
    LET loaded == TorchLoad(fs, BestModelPath(e))
    IN  IF loaded.status = "raise"
        THEN [ret |-> loaded, model |-> ms]
        ELSE IF ~CanLoadStateDict(ms, loaded.value)
        THEN [ret |-> Raise("RuntimeError"), model |-> ms]
        ELSE [ret |-> Return(loaded.value), model |-> loaded.value]

LoadBestModel(e, ms) ==
    LET outcome == LoadBestModelOutcome(files, e, ms)
    IN  /\ call' = Call("load_best_model", e, BestModelPath(e), ms, None)
        /\ ret' = outcome.ret
        /\ model' = outcome.model
        /\ optimizer' = None
        /\ torchLoads' = 1
        /\ UNCHANGED <<dirs, files, handlers, level, rng, now, initial, saved, latest,
                       rows>>

---------------------------------------------------------------------------
(* The clock, and the end of a process and the start of the next one.      *)

Tick ==
    /\ now < MaxTime
    /\ now' = now + 1
    /\ UNCHANGED <<dirs, files, handlers, level, rng, call, ret, model,
                   optimizer, torchLoads, initial, saved, latest, rows>>

NoCall == Call("", "", "", None, None)

\* a new process imports logging and the random number generators afresh;
\* the filesystem stays
Restart ==
    /\ call # NoCall
    /\ handlers' = <<>>
    /\ level' = "WARNING"
    /\ rng' = Unseeded
    /\ call' = NoCall
    /\ ret' = Return(None)
    /\ model' = None /\ optimizer' = None /\ torchLoads' = 0
    /\ UNCHANGED <<dirs, files, now, initial, saved, latest, rows>>

Init ==
    /\ \E fs \in InitialFileSystems :
          dirs = fs.dirs /\ files = fs.files /\ initial = fs.files
    /\ handlers = <<>>
    /\ level = "WARNING"
    /\ rng = Unseeded
    /\ now = 0
    /\ call = NoCall
    /\ ret = Return(None)
    /\ model = None /\ optimizer = None /\ torchLoads = 0
    /\ saved = NoSaves
    /\ latest = NoSaves
    /\ rows = NoRows

NextCsv ==
    \/ \E e \in Experiments : CreateLogger(e)
    \/ \E e \in Experiments, metric \in Metrics, epoch \in Epochs,
          metric_val \in MetricVals :
          SavePlottingData(e, metric, epoch, metric_val)

SpecCsv == Init /\ [][NextCsv]_vars

NextCkpt ==
    \/ \E e \in Experiments, s \in Snapshots, filename \in FileNames :
          SaveCheckpoint(e, s.next_epoch, s.best_acc, s.model, s.optimizer,
                         filename)
    \/ \E e \in Experiments, ms \in ModelStates, filename \in FileNames :
          SaveModel(ms, e, filename)
    \/ \E e \in Experiments, ms \in FreshModels, os \in FreshOptimizers :
          LoadCheckpoint(e, ms, os)
    \/ \E e \in Experiments, ms \in FreshModels : LoadBestModel(e, ms)

SpecCkpt == Init /\ [][NextCkpt]_vars

\* the three functions that write below out/<experiment_id>, called as a
\* training loop calls them after its first epoch, and create_logger
NextSave ==
    \/ \E e \in Experiments : CreateLogger(e)
    \/ \E e \in Experiments : SavePlottingData(e, "acc", 0, 5)
    \/ \E e \in Experiments :
          SaveCheckpoint(e, 1, 5, [weight |-> 1], [state |-> 1],
                         CheckpointFile)
    \/ \E e \in Experiments : SaveModel([weight |-> 1], e, BestModelFile)

SpecSave == Init /\ [][NextSave]_vars

NextLog ==
    \/ \E seed \in Seeds, cuda_available \in BOOLEAN :
          FixAllSeeds(seed, cuda_available)
    \/ \E e \in Experiments : CreateLogger(e)
    \/ Tick
    \/ Restart

SpecLog == Init /\ [][NextLog]_vars

Next ==
    \/ \E seed \in Seeds, cuda_available \in BOOLEAN :
          FixAllSeeds(seed, cuda_available)
    \/ \E e \in Experiments : CreateLogger(e)
    \/ \E e \in Experiments, metric \in Metrics, epoch \in Epochs,
          metric_val \in MetricVals :
          SavePlottingData(e, metric, epoch, metric_val)
    \/ NextCkpt
    \/ Tick
    \/ Restart

Spec == Init /\ [][Next]_vars

---------------------------------------------------------------------------
(* What the claims are stated with.                                        *)

\* a row read back from a metrics file holds this epoch and this value
DataRowOf(row, epoch, metric_val) ==
    /\ Len(row) = 2
    /\ IsNat(row[1]) /\ ParseNat(row[1]) = epoch
    /\ IsFloat(row[2]) /\ ParseFloat(row[2]) = metric_val

HeaderRows(read, metric) ==
    {j \in 1..Len(read) : read[j] = <<"epoch", metric>>}

FileHandlers(hs) == {i \in 1..Len(hs) : hs[i].class = "FileHandler"}

ConsoleHandlers(hs) == {i \in 1..Len(hs) : hs[i].class = "StreamHandler"}

\* a step changes no directory and no file but the one at path
OnlyChanges(path) ==
    /\ dirs' = dirs
    /\ DOMAIN files' \subseteq DOMAIN files \cup {path}
    /\ \A q \in DOMAIN files \ {path} :
          q \in DOMAIN files' /\ files'[q] = files[q]

\* what a save_checkpoint call recorded in a history stored
Restored(s) ==
    [model |-> s.model, optimizer |-> s.optimizer,
     next_epoch |-> s.next_epoch, best_acc |-> s.best_acc]

---------------------------------------------------------------------------
(* The claims.                                                             *)

\* C1: a metrics file that did not exist before the first call holds, after
\* n >= 1 save_plotting_data calls on it that returned, exactly the header
\* row ["epoch", metric] followed by n data rows, row i holding the epoch
\* and the value of call i, in call order.
C1_HeaderThenRowsInCallOrder ==
    \A e \in Experiments, metric \in Metrics :
        LET fn == Join(Join("out", e), metric \o ".csv") IN
        (fn \notin DOMAIN initial /\ fn \in DOMAIN rows) =>
            /\ IsFile(files, fn)
            /\ LET read == ReadCsv(files[fn].text) IN
               /\ Len(read) = 1 + Len(rows[fn])
               /\ read[1] = <<"epoch", metric>>
               /\ \A i \in 1..Len(rows[fn]) :
                     DataRowOf(read[i + 1], rows[fn][i][1], rows[fn][i][2])

\* two calls on one new file, whose metric name csv.writer had to quote
C1_Witness ==
    \E e \in Experiments :
        LET fn == Join(Join("out", e), "p,r.csv") IN
        /\ fn \notin DOMAIN initial /\ fn \in DOMAIN rows
        /\ Len(rows[fn]) = 2 /\ rows[fn][1] # rows[fn][2]

\* C2: the epoch and the value of every save_plotting_data call that
\* returned are read back from a data row of its file, also after any later
\* save_plotting_data calls on this or on any other file.
C2_WrittenValuesReadBack ==
    \A fn \in DOMAIN rows : \A i \in 1..Len(rows[fn]) :
        LET read == ReadCsv(files[fn].text) IN
        \E j \in 1..Len(read) :
            DataRowOf(read[j], rows[fn][i][1], rows[fn][i][2])

\* a call on a file an earlier run left, followed by a call on another file
C2_Witness ==
    /\ call.op = "save_plotting_data" /\ ret.status = "return"
    /\ \E fn \in DOMAIN rows \cap DOMAIN initial :
          fn # call.path /\ initial[fn].text # ""

C4_LogsToOwnExperiment ==
    call.op = "create_logger" =>
        /\ LogDir(call.experiment_id) \in dirs
        /\ \E i \in FileHandlers(handlers) :
              /\ IsFile(files, handlers[i].target)
              /\ handlers[i].target \in
                    {LogFile(call.experiment_id, t) : t \in 0..MaxTime}

\* C5: with out/e/checkpoint.pth.tar missing, load_checkpoint ends in the
\* FileNotFoundError of its one torch.load, returns nothing and leaves the
\* model, the optimizer and the filesystem as they were; with
\* out/e/best_model.pth.tar missing, so does load_best_model.
C5_MissingFilePropagates ==
    [][ /\ \A e \in Experiments, ms \in FreshModels, os \in FreshOptimizers :
             (/\ LoadCheckpoint(e, ms, os)
              /\ ~IsFile(files, Join(Join("out", e), "checkpoint.pth.tar"))) =>
                 /\ ret'.status = "raise"
                 /\ ret'.value = "FileNotFoundError"
                 /\ torchLoads' = 1
                 /\ model' = ms /\ optimizer' = os
                 /\ files' = files /\ dirs' = dirs
        /\ \A e \in Experiments, ms \in FreshModels :
             (/\ LoadBestModel(e, ms)
              /\ ~IsFile(files, Join(Join("out", e), "best_model.pth.tar"))) =>
                 /\ ret'.status = "raise"
                 /\ ret'.value = "FileNotFoundError"
                 /\ torchLoads' = 1
                 /\ model' = ms
                 /\ files' = files /\ dirs' = dirs
      ]_vars

\* load_checkpoint raised for an experiment that has another pickled file
C5_Witness ==
    /\ call.op = "load_checkpoint"
    /\ ret.status = "raise" /\ ret.value = "FileNotFoundError"
    /\ ~IsFile(files, call.path)
    /\ Join(ExperimentDir(call.experiment_id), "epoch.pth.tar")
          \in Pickles(files)

\* C6: the effect and the result of create_logger(e) are those of the same
\* call in a process that made no call before, on the same files.
C6_CreateLoggerIgnoresEarlierCalls ==
    [][ \A e \in Experiments :
            CreateLogger(e) =>
                /\ files' = LoggerSetup(<<>>, files, e, now).files
                /\ handlers' = LoggerSetup(<<>>, files, e, now).handlers
      ]_vars

\* C7: the root logger never carries more than one file handler or more
\* than one console handler, and carries one of each after create_logger.
C7_OneHandlerOfEachKind ==
    /\ Cardinality(FileHandlers(handlers)) <= 1
    /\ Cardinality(ConsoleHandlers(handlers)) <= 1
    /\ call.op = "create_logger" =>
          /\ Cardinality(FileHandlers(handlers)) = 1
          /\ Cardinality(ConsoleHandlers(handlers)) = 1

\* a create_logger call of a process that had called it before, for
\* another experiment or in another minute
C7_Witness ==
    /\ call.op = "create_logger"
    /\ Len(handlers) > 0
    /\ handlers[1].target # call.path

\* C8: directories only grow, and only create_logger makes one, out/e among
\* them; save_plotting_data, save_checkpoint and save_model make none, with
\* out/e missing they raise and leave every file as it was, and with out/e
\* present they return and their file exists.
C8_OnlyCreateLoggerMakesDirectories ==
    [][ /\ dirs \subseteq dirs'
        /\ dirs' # dirs => \E e \in Experiments : CreateLogger(e)
        /\ \A e \in Experiments :
              /\ CreateLogger(e) => Join("out", e) \in dirs'
              /\ (\/ \E metric \in Metrics, epoch \in Epochs,
                        metric_val \in MetricVals :
                        SavePlottingData(e, metric, epoch, metric_val)
                  \/ \E s \in Snapshots, filename \in FileNames :
                        SaveCheckpoint(e, s.next_epoch, s.best_acc, s.model,
                                       s.optimizer, filename)
                  \/ \E ms \in ModelStates, filename \in FileNames :
                        SaveModel(ms, e, filename)) =>
                     /\ dirs' = dirs
                     /\ IF Join("out", e) \in dirs
                        THEN /\ ret'.status = "return"
                             /\ IsFile(files', call'.path)
                        ELSE /\ ret'.status = "raise"
                             /\ files' = files
      ]_vars

\* each of the three returned for an experiment whose directory
\* create_logger made
C8_Witness ==
    /\ initial = NoFiles
    /\ "out/b/acc.csv" \in DOMAIN rows
    /\ "out/b/checkpoint.pth.tar" \in DOMAIN saved
    /\ call.op = "save_model" /\ call.experiment_id = "b"
    /\ ret.status = "return"

\* C9: save_checkpoint(e, ..., filename) and save_model(model, e, filename)
\* change the file out/e/filename and nothing else; with a filename other
\* than "checkpoint.pth.tar" they change the outcome of load_checkpoint for
\* no experiment; load_checkpoint and load_best_model change no file; and
\* load_best_model(e) returns the state the save_model call that wrote
\* out/e/best_model.pth.tar last was given.
C9_WritesOnePathLoadsFixedPath ==
    [][ /\ \A e \in Experiments, filename \in FileNames :
              LET path == Join(Join("out", e), filename) IN
              (/\ call'.op \in {"save_checkpoint", "save_model"}
               /\ call'.experiment_id = e
               /\ \/ \E s \in Snapshots :
                        SaveCheckpoint(e, s.next_epoch, s.best_acc, s.model,
                                       s.optimizer, filename)
                  \/ \E ms \in ModelStates : SaveModel(ms, e, filename)) =>
                  /\ OnlyChanges(path)
                  /\ filename # "checkpoint.pth.tar" =>
                        \A e2 \in Experiments, ms \in FreshModels,
                           os \in FreshOptimizers :
                            LoadCheckpointOutcome(files', e2, ms, os)
                                = LoadCheckpointOutcome(files, e2, ms, os)
        /\ \A e \in Experiments, ms \in FreshModels :
              LET path == Join(Join("out", e), "best_model.pth.tar") IN
              (/\ call'.op \in {"load_checkpoint", "load_best_model"}
               /\ call'.experiment_id = e
               /\ \/ LoadBestModel(e, ms)
                  \/ \E os \in FreshOptimizers : LoadCheckpoint(e, ms, os)) =>
                  /\ files' = files /\ dirs' = dirs
                  /\ (/\ call'.op = "load_best_model"
                      /\ path \in DOMAIN saved
                      /\ saved[path].op = "save_model") =>
                         /\ ret'.status = "return"
                         /\ ret'.value = saved[path].model
                         /\ model' = saved[path].model
      ]_vars

\* load_best_model returned the saved state although a save_checkpoint with
\* the default filename was the last write of the experiment
C9_Witness ==
    /\ call.op = "load_best_model" /\ ret.status = "return"
    /\ call.experiment_id \in DOMAIN latest
    /\ CheckpointPath(call.experiment_id) \in DOMAIN saved
    /\ saved[CheckpointPath(call.experiment_id)].op = "save_checkpoint"
    /\ saved[CheckpointPath(call.experiment_id)].model # ret.value

\* C10: a save_plotting_data call that finds its file appends one data row
\* to it, keeping what the file held and adding no header row; a call that
\* does not find it leaves the header row and one data row.
C10_HeaderOnlyWhenFileMissing ==
    [][ \A e \in Experiments, metric \in Metrics, epoch \in Epochs,
           metric_val \in MetricVals :
            (SavePlottingData(e, metric, epoch, metric_val)
             /\ ret'.status = "return") =>
                LET fn == Join(Join("out", e), metric \o ".csv")
                    after == ReadCsv(files'[fn].text)
                IN  IF IsFile(files, fn)
                    THEN LET old == files[fn].text
                             before == ReadCsv(old)
                         IN  /\ SubSeq(files'[fn].text, 1, Len(old)) = old
                             /\ Len(after) = Len(before) + 1
                             /\ SubSeq(after, 1, Len(before)) = before
                             /\ DataRowOf(after[Len(after)], epoch, metric_val)
                             /\ HeaderRows(after, metric)
                                    = HeaderRows(before, metric)
                    ELSE /\ Len(after) = 2
                         /\ after[1] = <<"epoch", metric>>
                         /\ DataRowOf(after[2], epoch, metric_val)
      ]_vars

\* a call on a file that existed, empty, before the first call: the file
\* holds one data row and no header
C10_Witness ==
    /\ call.op = "save_plotting_data" /\ ret.status = "return"
    /\ call.path \in DOMAIN initial
    /\ initial[call.path].text = ""
    /\ Len(ReadCsv(files[call.path].text)) = 1

====
